---- MODULE Spec2Model ----
(***************************************************************************)
(* Model of the light-cycle bot of src/client/andrei.cpp (class BotClient): *)
(* the move geometry, the flood fill, the move evaluator, the decision     *)
(* policy and the receive/decide/send loop.                                *)
(*                                                                         *)
(* Three specifications share one set of variables:                        *)
(*   Spec        the process: constructor, run loop, receive, send;        *)
(*   SpecDecide  decide_move, one loop iteration per step, on every grid   *)
(*               and own position within the bounds;                       *)
(*   SpecFill    flood_fill, one queue operation per step, on every grid   *)
(*               and start cell within the bounds.                         *)
(***************************************************************************)
EXTENDS Integers, Sequences, FiniteSets

VARIABLES
  pc,              \* position of the running code
  state,           \* BotClient::state (GameState)
  my_player,       \* BotClient::my_player (Player)
  session,         \* the grid dimensions of the session the connection joined
  active,          \* what connection.isActive() answers
  nRecv,           \* number of connection.receiveGameState() calls made
  nSend,           \* number of connection.sendMove() calls made
  received,        \* value the last connection.receiveGameState() call returned
  sent,            \* argument of the last connection.sendMove() call
  reported,        \* isActive() has answered false inside run
  found_pos,       \* << position of the bot in the last received state holding it >>
  i,               \* decide_move: loop counter
  max_score,       \* decide_move: running maximum
  best_direction,  \* decide_move: direction of the running maximum
  position,        \* flood_fill: the start cell
  seeded,          \* flood_fill: the visited grid as the caller passed it
  fill,            \* flood_fill: [area, q, visited]
  current,         \* flood_fill: the cell popped last
  k,               \* flood_fill: index into directionVectors of the inner loop
  pushed,          \* flood_fill: every cell pushed, in order
  popped           \* flood_fill: every cell popped (counted), in order

vars == << pc, state, my_player, session, active, nRecv, nSend, received, sent, reported,
           found_pos, i, max_score, best_direction, position, seeded, fill,
           current, k, pushed, popped >>

loopVars == << session, active, nRecv, nSend, received, sent, reported, found_pos >>
decideVars == << i, max_score, best_direction >>
fillVars == << position, seeded, fill, current, k, pushed, popped >>

----------------------------------------------------------------------------
(* Bounds of the model *)

\* grids of every shape with at most this many cells (decide_move, flood_fill)
MaxCells == 9
\* grids of every shape with at most this many cells (the run loop)
MaxLoopCells == 2
\* longest player list of a received game state
MaxPlayers == 2
\* iterations of the run loop
MaxTicks == 2

----------------------------------------------------------------------------
(* Values *)

Vec(x, y) == [x |-> x, y |-> y]

VecAdd(a, b) == Vec(a.x + b.x, a.y + b.y)

Cells(w, h) == { Vec(x, y) : x \in 0..(w - 1), y \in 0..(h - 1) }

Shapes(n) == { wh \in (1..n) \X (1..n) : wh[1] * wh[2] <= n }

\* a GameState with the given dimensions, cell values and player list
GameState(w, h, g, ps) ==
  [gridWidth |-> w, gridHeight |-> h, grid |-> g, players |-> ps]

\* every grid with at most n cells; a cell holds 0 (empty) or a player id
GameStates(n) ==
  UNION { { GameState(wh[1], wh[2], g, << >>) :
              g \in [Cells(wh[1], wh[2]) -> {0, 1}] } : wh \in Shapes(n) }

\* the empty 5x5 grid
EmptyGrid5 == GameState(5, 5, [c \in Cells(5, 5) |-> 0], << >>)

\* own positions tried on a grid: every cell and the ring around the grid
Positions(st) ==
  { Vec(x, y) : x \in (-1)..st.gridWidth, y \in (-1)..st.gridHeight }

Player(n, p) == [name |-> n, position |-> p]

----------------------------------------------------------------------------
(* Move geometry *)

directionVectors_south_twice == << Vec(0, -1), Vec(1, 0), Vec(0, 1), Vec(0, 1) >>

directionVectors == << Vec(0, -1), Vec(1, 0), Vec(0, 1), Vec(-1, 0) >>

Direction == {"north", "east", "south", "west"}

getDirectionFromValue(v) == << "north", "east", "south", "west" >>[v + 1]

getDirectionValue(d) == CHOOSE v \in 0..3 : getDirectionFromValue(v) = d

getDirectionVector(d) ==
  CASE d = "north" -> Vec(0, -1)
    [] d = "east"  -> Vec(1, 0)
    [] d = "south" -> Vec(0, 1)
    [] d = "west"  -> Vec(-1, 0)

isInsideGrid(st, p) ==
  /\ p.x >= 0 /\ p.x < st.gridWidth
  /\ p.y >= 0 /\ p.y < st.gridHeight

getGridCell(st, p) == st.grid[p]

is_valid_move(st, me, direction) ==
  LET new_pos == VecAdd(me.position, getDirectionVector(direction))
  IN  IF ~isInsideGrid(st, new_pos) THEN FALSE
      ELSE IF getGridCell(st, new_pos) # 0 THEN FALSE
      ELSE TRUE

----------------------------------------------------------------------------
(* Flood fill *)

\* lines 39-42: the empty count, the queue holding the start, the start marked
flood_fill_enter_unmarked(pos, visited) ==
  [area |-> 0, q |-> << pos >>, visited |-> visited]

flood_fill_enter(pos, visited) ==
  [area |-> 0, q |-> << pos >>, visited |-> [visited EXCEPT ![pos] = TRUE]]

\* lines 45-47: pop the front cell and count it
flood_fill_pop(f) == [f EXCEPT !.q = Tail(@), !.area = @ + 1]

\* lines 51-53: the condition under which a neighbour is taken
can_visit(st, f, newPos) ==
  /\ isInsideGrid(st, newPos)
  /\ getGridCell(st, newPos) = 0
  /\ ~f.visited[newPos]

\* lines 50-56: one neighbour of the popped cell
flood_fill_visit(st, f, cur, dir) ==
  LET newPos == VecAdd(cur, dir)
  IN  IF can_visit(st, f, newPos)
        THEN [f EXCEPT !.visited[newPos] = TRUE, !.q = Append(@, newPos)]
        ELSE f

\* lines 49-57: the neighbours from the n-th direction vector on
RECURSIVE flood_fill_scan(_, _, _, _)
flood_fill_scan(st, f, cur, n) ==
  IF n > Len(directionVectors) THEN f
  ELSE flood_fill_scan(st, flood_fill_visit(st, f, cur, directionVectors[n]),
                       cur, n + 1)

\* lines 44-58: the loop, until the queue is empty
RECURSIVE flood_fill_loop(_, _)
flood_fill_loop(st, f) ==
  IF f.q = << >> THEN f
  ELSE flood_fill_loop(st, flood_fill_scan(st, flood_fill_pop(f), Head(f.q), 1))

\* line 60: the value returned
flood_fill_counting_marks(f) ==
  Cardinality({ c \in DOMAIN f.visited : f.visited[c] })

flood_fill_result(f) == f.area

\* the final [area, q, visited]; flood_fill returns its area, and its visited
\* is what the caller's grid holds afterwards
flood_fill(st, pos, visited) == flood_fill_loop(st, flood_fill_enter(pos, visited))

----------------------------------------------------------------------------
(* Move evaluator *)

RISK_PENALTY == 10

\* lines 74-81: the visited grid, occupied cells marked
seed_visited(st) ==
  [c \in Cells(st.gridWidth, st.gridHeight) |-> getGridCell(st, c) # 0]

\* lines 87-93
risk_of(st, new_pos) ==
  Cardinality({ n \in 1..Len(directionVectors) :
    LET adjacentPos == VecAdd(new_pos, directionVectors[n])
    IN  ~isInsideGrid(st, adjacentPos) \/ getGridCell(st, adjacentPos) # 0 })

\* line 96
score_of_sum(area, risk) == area + (risk * RISK_PENALTY)

score_of(area, risk) == area - (risk * RISK_PENALTY)

evaluate_move(st, me, direction) ==
  IF ~is_valid_move(st, me, direction) THEN -1
  ELSE LET new_pos == VecAdd(me.position, getDirectionVector(direction))
           area == flood_fill_result(flood_fill(st, new_pos, seed_visited(st)))
           risk == risk_of(st, new_pos)
       IN  score_of(area, risk)

----------------------------------------------------------------------------
(* Decision policy *)

INT_MIN == (-2147483647) - 1

\* lines 103-104
decide_move_enter == [max_score |-> INT_MIN, best_direction |-> "north"]

\* line 114
is_better_or_equal(score, max) == score >= max

is_better(score, max) == score > max

\* line 107: the counter after an iteration
decide_move_next_stuck(v) == v

decide_move_next(v) == v + 1

\* lines 108-117: the iteration with counter v
decide_move_step(st, me, acc, v) ==
  LET direction == getDirectionFromValue(v)
      score == evaluate_move(st, me, direction)
  IN  IF is_better(score, acc.max_score)
        THEN [max_score |-> score, best_direction |-> direction]
        ELSE acc

RECURSIVE decide_move_loop(_, _, _, _)
decide_move_loop(st, me, acc, v) ==
  IF v < 4 THEN decide_move_loop(st, me, decide_move_step(st, me, acc, v),
                                 decide_move_next(v))
  ELSE acc

decide_move(st, me) == decide_move_loop(st, me, decide_move_enter, 0).best_direction

----------------------------------------------------------------------------
(* SpecDecide: decide_move on every grid and own position *)

\* the GameState member before the first receive, never read
NoState == GameState(0, 0, << >>, << >>)

NoFill == [area |-> 0, q |-> << >>, visited |-> << >>]

IdleLoopVars ==
  /\ session = << 0, 0 >>
  /\ active = FALSE /\ nRecv = 0 /\ nSend = 0 /\ received = NoState /\ sent = "none"
  /\ reported = FALSE /\ found_pos = << >>

IdleFillVars ==
  /\ position = Vec(0, 0) /\ seeded = << >> /\ fill = NoFill
  /\ current = Vec(0, 0) /\ k = 0 /\ pushed = << >> /\ popped = << >>

InitDecide ==
  /\ pc = "decide"
  /\ \/ /\ state \in GameStates(MaxCells)
        /\ \E p \in Positions(state) : my_player = Player("me", p)
     \/ /\ state = EmptyGrid5
        /\ my_player = Player("me", Vec(2, 2))
  /\ i = 0
  /\ max_score = decide_move_enter.max_score
  /\ best_direction = decide_move_enter.best_direction
  /\ IdleLoopVars
  /\ IdleFillVars

\* one iteration of the loop of decide_move
DecideStep ==
  /\ pc = "decide"
  /\ i < 4
  /\ LET acc == decide_move_step(state, my_player,
                  [max_score |-> max_score, best_direction |-> best_direction], i)
     IN  /\ max_score' = acc.max_score
         /\ best_direction' = acc.best_direction
  /\ i' = decide_move_next(i)
  /\ UNCHANGED << pc, state, my_player, loopVars, fillVars >>

\* the loop is over: decide_move returns best_direction
DecideReturn ==
  /\ pc = "decide"
  /\ i >= 4
  /\ pc' = "decided"
  /\ UNCHANGED << state, my_player, i, max_score, best_direction, loopVars, fillVars >>

NextDecide == DecideStep \/ DecideReturn

SpecDecide == InitDecide /\ [][NextDecide]_vars

----------------------------------------------------------------------------
(* SpecFill: flood_fill as evaluate_move calls it, one queue operation per step *)

IdleDecideVars ==
  /\ i = 0
  /\ max_score = decide_move_enter.max_score
  /\ best_direction = decide_move_enter.best_direction

EmptyCells(st) ==
  { c \in Cells(st.gridWidth, st.gridHeight) : getGridCell(st, c) = 0 }

\* the cell a push has just added to the queue, recorded in the history
Pushes(before, after) ==
  IF Len(after.q) > Len(before.q) THEN << after.q[Len(after.q)] >> ELSE << >>

InitFill ==
  /\ pc = "fill_call"
  /\ state \in GameStates(MaxCells)
  /\ my_player = Player("me", Vec(0, 0))
  /\ position \in EmptyCells(state)
  /\ seeded = seed_visited(state)
  /\ fill = NoFill
  /\ current = Vec(0, 0) /\ k = 0 /\ pushed = << >> /\ popped = << >>
  /\ IdleLoopVars
  /\ IdleDecideVars

\* lines 39-42
FillEnter ==
  /\ pc = "fill_call"
  /\ fill' = flood_fill_enter(position, seeded)
  /\ pushed' = << position >>
  /\ pc' = "fill_loop"
  /\ UNCHANGED << state, my_player, position, seeded, current, k, popped,
                  loopVars, decideVars >>

\* lines 44-47
FillPop ==
  /\ pc = "fill_loop"
  /\ fill.q # << >>
  /\ current' = Head(fill.q)
  /\ fill' = flood_fill_pop(fill)
  /\ popped' = Append(popped, Head(fill.q))
  /\ k' = 1
  /\ pc' = "fill_scan"
  /\ UNCHANGED << state, my_player, position, seeded, pushed, loopVars, decideVars >>

\* lines 49-57, one direction vector
FillVisit ==
  /\ pc = "fill_scan"
  /\ k <= Len(directionVectors)
  /\ fill' = flood_fill_visit(state, fill, current, directionVectors[k])
  /\ pushed' = pushed \o Pushes(fill, fill')
  /\ k' = k + 1
  /\ pc' = IF k + 1 > Len(directionVectors) THEN "fill_loop" ELSE "fill_scan"
  /\ UNCHANGED << state, my_player, position, seeded, current, popped,
                  loopVars, decideVars >>

\* line 60
FillReturn ==
  /\ pc = "fill_loop"
  /\ fill.q = << >>
  /\ pc' = "fill_returned"
  /\ UNCHANGED << state, my_player, fillVars, loopVars, decideVars >>

NextFill == FillEnter \/ FillPop \/ FillVisit \/ FillReturn

SpecFill == InitFill /\ [][NextFill]_vars

----------------------------------------------------------------------------
(* Spec: the process, from the constructor to the return of run *)

\* the name the bot was started with, and the names players carry
name == "me"

\* sequences over S of length at most n
RECURSIVE SeqsUpTo(_, _)
SeqsUpTo(S, n) ==
  IF n = 0 THEN { << >> }
  ELSE LET shorter == SeqsUpTo(S, n - 1)
       IN  shorter \cup { Append(ps, e) : ps \in shorter, e \in S }

\* the players a state of a w x h session may list: the bot on any cell, and
\* another player (whose position the bot never reads)
PlayersOn(w, h) ==
  { Player(name, p) : p \in Cells(w, h) } \cup { Player("other", Vec(0, 0)) }

\* what connection.receiveGameState() may return in a w x h session: a grid
\* and the players on it
ReceivableStates(w, h) ==
  { GameState(w, h, g, ps) :
      g \in [Cells(w, h) -> {0, 1}],
      ps \in SeqsUpTo(PlayersOn(w, h), MaxPlayers) }

\* my_player before any assignment: its position is whatever construction left
UnsetPositions == { Vec(x, y) : x \in {-1, 0, 1}, y \in {-1, 0, 1} }

\* line 126: the member state after the assignment
store_state_dropped(old, gs) == old

store_state(old, gs) == gs

\* lines 127-132: the loop over the players from index j on; me if none matches
RECURSIVE find_player_no_break(_, _, _, _)
find_player_no_break(players, nm, me, j) ==
  IF j > Len(players) THEN me
  ELSE find_player_no_break(players, nm,
         IF players[j].name = nm THEN players[j] ELSE me, j + 1)

RECURSIVE find_player(_, _, _, _)
find_player(players, nm, me, j) ==
  IF j > Len(players) THEN me
  ELSE IF players[j].name = nm THEN players[j]
  ELSE find_player(players, nm, me, j + 1)

\* line 155: where run goes on the answer of isActive()
run_loop_do_while(isActive) == "receive"

run_loop(isActive) == IF isActive THEN "receive" ELSE "returned"

\* indices of the players named nm, and the position of the first of them
Matches(players, nm) == { j \in 1..Len(players) : players[j].name = nm }

FirstMatch(players, nm) ==
  players[CHOOSE j \in Matches(players, nm) :
            \A j2 \in Matches(players, nm) : j <= j2]

Init ==
  /\ pc = "construct"
  /\ state = NoState
  /\ \E p \in UnsetPositions : my_player = Player("", p)
  /\ session \in Shapes(MaxLoopCells)
  /\ active = FALSE /\ nRecv = 0 /\ nSend = 0 /\ received = NoState /\ sent = "none"
  /\ reported = FALSE /\ found_pos = << >>
  /\ IdleDecideVars
  /\ IdleFillVars

\* lines 143-151: connect, then exit(1) unless the connection is active
Construct ==
  /\ pc = "construct"
  /\ \E ok \in BOOLEAN :
       /\ active' = ok
       /\ pc' = IF ok THEN "run" ELSE "exited"
  /\ UNCHANGED << state, my_player, session, nRecv, nSend, received, sent,
                  reported, found_pos, decideVars, fillVars >>

\* line 155: the loop condition of run
RunCheck ==
  /\ pc = "run"
  /\ nRecv < MaxTicks \/ ~active
  /\ pc' = run_loop(active)
  /\ reported' = (reported \/ ~active)
  /\ UNCHANGED << state, my_player, session, active, nRecv, nSend, received,
                  sent, found_pos, decideVars, fillVars >>

\* lines 125-133
ReceiveGameState ==
  /\ pc = "receive"
  /\ \E gs \in ReceivableStates(session[1], session[2]) :
       /\ received' = gs
       /\ state' = store_state(state, gs)
       /\ my_player' = find_player(store_state(state, gs).players, name, my_player, 1)
       /\ found_pos' = IF Matches(gs.players, name) = {} THEN found_pos
                       ELSE << FirstMatch(gs.players, name).position >>
  /\ nRecv' = nRecv + 1
  /\ pc' = "send"
  /\ UNCHANGED << session, active, nSend, sent, reported, decideVars, fillVars >>

\* lines 136-140
SendMove ==
  /\ pc = "send"
  /\ sent' = decide_move(state, my_player)
  /\ nSend' = nSend + 1
  /\ pc' = "run"
  /\ UNCHANGED << state, my_player, session, active, nRecv, received, reported,
                  found_pos, decideVars, fillVars >>

\* the session ends, at any moment
Disconnect ==
  /\ pc \in {"run", "receive", "send"}
  /\ active
  /\ active' = FALSE
  /\ UNCHANGED << pc, state, my_player, session, nRecv, nSend, received, sent,
                  reported, found_pos, decideVars, fillVars >>

Next == Construct \/ RunCheck \/ ReceiveGameState \/ SendMove \/ Disconnect

Spec == Init /\ [][Next]_vars

----------------------------------------------------------------------------
(* What the properties are stated with: the board's geometry, written      *)
(* without the code's direction table, queue or visited grid              *)

\* c is off the board or holds a trail
Blocked(st, c) == c \notin Cells(st.gridWidth, st.gridHeight) \/ st.grid[c] # 0

\* a and b are cardinal neighbours
Adjacent(a, b) == (a.x - b.x) * (a.x - b.x) + (a.y - b.y) * (a.y - b.y) = 1

FourNeighbours(c) ==
  { Vec(c.x, c.y - 1), Vec(c.x + 1, c.y), Vec(c.x, c.y + 1), Vec(c.x - 1, c.y) }

\* the least set of empty cells that holds S and every empty neighbour of a member
RECURSIVE Grow(_, _)
Grow(st, S) ==
  LET T == S \cup { c \in EmptyCells(st) : \E s \in S : Adjacent(c, s) }
  IN  IF T = S THEN S ELSE Grow(st, T)

\* the 4-connected component of empty cells holding the empty cell s
Component(st, s) == Grow(st, {s})

\* st with cell c occupied as well
WithOccupied(st, c) == [st EXCEPT !.grid[c] = 1]

Range(seq) == { seq[n] : n \in 1..Len(seq) }

NoRepeat(seq) == \A m, n \in 1..Len(seq) : seq[m] = seq[n] => m = n

Valid(d) == is_valid_move(state, my_player, d)

Dest(d) == VecAdd(my_player.position, getDirectionVector(d))

Score(d) == evaluate_move(state, my_player, d)

Scores == { Score(d) : d \in Direction }

MaxOf(S) == CHOOSE m \in S : \A n \in S : n <= m

----------------------------------------------------------------------------
(* Properties of decide_move and evaluate_move, checked under SpecDecide *)

\* C1: when decide_move has returned, every direction that leads off the grid
\* or into an occupied cell scored -1, and if some direction is a valid move
\* then the returned direction is a valid move.
C1_IllegalNeverChosen ==
  pc = "decided" =>
    /\ \A d \in Direction : ~Valid(d) => Score(d) = -1
    /\ (\E d \in Direction : Valid(d)) => Valid(best_direction)

\* C2: decide_move returns the earliest direction, in the order north, east,
\* south, west, whose score is the maximum of the four; the running best is
\* replaced only by a strictly greater score; on the empty 5x5 grid with the
\* player at the centre the four scores are equal and the result is north.
C2_TieBreak ==
  /\ [](pc = "decided" =>
          /\ max_score = MaxOf(Scores)
          /\ Score(best_direction) = max_score
          /\ \A v \in 0..3 :
               Score(getDirectionFromValue(v)) = max_score =>
                 getDirectionValue(best_direction) <= v
          /\ (state = EmptyGrid5 /\ my_player.position = Vec(2, 2)) =>
               /\ Cardinality(Scores) = 1
               /\ best_direction = "north")
  /\ [][(pc = "decide" /\ i < 4) =>
          IF Score(getDirectionFromValue(i)) > max_score
            THEN /\ max_score' = Score(getDirectionFromValue(i))
                 /\ best_direction' = getDirectionFromValue(i)
            ELSE /\ max_score' = max_score
                 /\ best_direction' = best_direction]_vars

C2_Witness ==
  /\ pc = "decided"
  /\ state = EmptyGrid5
  /\ best_direction = "north"
  /\ max_score = 25

\* C3: the score of the valid move evaluated last is the size of the component
\* of empty cells holding its destination, minus 10 for each of the four
\* neighbours of the destination that is off the board or occupied.
C3_ScoreFormula ==
  (pc = "decide" /\ i >= 1) =>
    LET d == getDirectionFromValue(i - 1)
        area == Cardinality(Component(state, Dest(d)))
        risk == Cardinality({ n \in FourNeighbours(Dest(d)) : Blocked(state, n) })
    IN  Valid(d) => /\ risk \in 0..4
                    /\ Score(d) = area - 10 * risk

C3_Witness ==
  /\ pc = "decide" /\ i = 3
  /\ Valid("south")
  /\ Cardinality({ n \in FourNeighbours(Dest("south")) : Blocked(state, n) }) = 2
  /\ Score("south") = 5 - 20

\* C5: decide_move runs at most four iterations and then returns: every step
\* of it advances the counter by one or, with the counter at 4, returns, and
\* with the counter at 4 the return is enabled; the direction it holds is
\* always one of the four; when all four directions are illegal it returns
\* north with the maximum -1.
C5_AlwaysReturns ==
  /\ [](/\ i \in 0..4
        /\ best_direction \in Direction
        /\ (pc = "decide" /\ i = 4) => ENABLED DecideReturn
        /\ pc = "decided" =>
             /\ i = 4
             /\ (\A d \in Direction : ~Valid(d)) =>
                  (best_direction = "north" /\ max_score = -1))
  /\ [][pc = "decide" =>
          \/ (i < 4 /\ i' = i + 1 /\ pc' = "decide")
          \/ (i = 4 /\ i' = i /\ pc' = "decided")]_vars

C5_Witness ==
  /\ pc = "decided"
  /\ \A d \in Direction : ~Valid(d)
  /\ isInsideGrid(state, my_player.position)
  /\ best_direction = "north"

----------------------------------------------------------------------------
(* Properties of flood_fill, checked under SpecFill *)

\* C4: flood_fill, on visited seeded with exactly the occupied cells, returns
\* the size of the 4-connected component of empty cells holding the start,
\* whether run step by step or in one call; on a grid without occupied cells
\* that is width * height.
C4_AreaIsComponent ==
  pc = "fill_returned" =>
    /\ flood_fill_result(fill) = Cardinality(Component(state, position))
    /\ flood_fill_result(flood_fill(state, position, seed_visited(state)))
         = Cardinality(Component(state, position))
    /\ EmptyCells(state) = Cells(state.gridWidth, state.gridHeight) =>
         flood_fill_result(fill) = state.gridWidth * state.gridHeight

C4_Witness ==
  /\ pc = "fill_returned"
  /\ flood_fill_result(fill) = 4
  /\ Cardinality(EmptyCells(state)) = 6

\* C9: occupying one more empty cell, other than the start, never makes the
\* flood-fill area from the start larger.
C9_Monotone ==
  pc = "fill_returned" =>
    \A c \in EmptyCells(state) \ {position} :
      flood_fill_result(flood_fill(WithOccupied(state, c), position,
                                   seed_visited(WithOccupied(state, c))))
        <= flood_fill_result(fill)

C9_Witness ==
  /\ pc = "fill_returned"
  /\ \E c \in EmptyCells(state) \ {position} :
       flood_fill_result(flood_fill(WithOccupied(state, c), position,
                                    seed_visited(WithOccupied(state, c))))
         = flood_fill_result(fill) - 3
  /\ \E c \in EmptyCells(state) \ {position} :
       flood_fill_result(flood_fill(WithOccupied(state, c), position,
                                    seed_visited(WithOccupied(state, c))))
         = flood_fill_result(fill)

\* C10: at every step of flood_fill the queued cells are on the board, empty
\* and marked visited; no cell is pushed or popped twice; the queue is no
\* longer than width * height; no occupied cell is pushed or counted; the
\* area is the number of cells popped; and at return the marked cells are the
\* seeded cells and the cells counted.
C10_QueueInvariant ==
  pc \in {"fill_loop", "fill_scan", "fill_returned"} =>
    /\ \A n \in 1..Len(fill.q) :
         /\ isInsideGrid(state, fill.q[n])
         /\ getGridCell(state, fill.q[n]) = 0
         /\ fill.visited[fill.q[n]]
    /\ NoRepeat(pushed)
    /\ NoRepeat(popped)
    /\ pushed = popped \o fill.q
    /\ Len(fill.q) <= state.gridWidth * state.gridHeight
    /\ \A c \in Range(pushed) : ~Blocked(state, c)
    /\ fill.area = Len(popped)
    /\ pc = "fill_returned" =>
         /\ { c \in DOMAIN fill.visited : fill.visited[c] }
              = { c \in DOMAIN seeded : seeded[c] } \cup Range(popped)
         /\ { c \in DOMAIN seeded : seeded[c] } \cap Range(popped) = {}

C10_Witness ==
  /\ pc = "fill_scan"
  /\ Len(fill.q) >= 3
  /\ Len(popped) >= 2
  /\ \E c \in DOMAIN seeded : seeded[c]

----------------------------------------------------------------------------
(* Properties of the run loop, checked under Spec *)

\* C6: receiveGameState and sendMove calls alternate, a receive first: a
\* receive happens only when as many moves were sent as states received, a
\* send only when one more state was received, and the move sent is
\* decide_move on the state received in the same iteration.
C6_Alternation ==
  /\ [](/\ nSend <= nRecv /\ nRecv <= nSend + 1
        /\ pc = "send" <=> nRecv = nSend + 1)
  /\ [][/\ nRecv' # nRecv =>
             (nRecv = nSend /\ nRecv' = nRecv + 1 /\ nSend' = nSend)
        /\ nSend' # nSend =>
             /\ nRecv = nSend + 1 /\ nSend' = nSend + 1 /\ nRecv' = nRecv
             /\ state = received
             /\ sent' = decide_move(received, my_player)]_vars

C6_Witness == pc = "run" /\ nRecv = 2 /\ nSend = 2 /\ sent = "east"

\* C7: once isActive() has answered false in run, run has returned, and no
\* receiveGameState or sendMove call is made from then on.
C7_NoCallAfterInactive ==
  /\ [](reported => pc = "returned")
  /\ [][reported => (reported' /\ nRecv' = nRecv /\ nSend' = nSend /\ sent' = sent)]_vars
  /\ [][(pc = "run" /\ pc' # pc) => (reported' <=> ~active)]_vars

C7_Witness == reported /\ pc = "returned" /\ nSend >= 1

\* C8: receive_game_state stores the received state; when no player of it
\* carries the bot's name my_player is left as it was, otherwise my_player is
\* the first such player; so once the bot was found, the move sent is
\* decide_move on the received grid with the position of the bot in the last
\* state that held it.
C8_StaleSelf ==
  /\ [][(pc = "receive" /\ pc' = "send") =>
          /\ state' = received'
          /\ IF Matches(received'.players, name) = {}
               THEN my_player' = my_player
               ELSE my_player' = FirstMatch(received'.players, name)]_vars
  /\ [](found_pos # << >> => my_player.position = found_pos[1])
  /\ [][(nSend' # nSend /\ found_pos # << >>) =>
          sent' = decide_move(received, Player(name, found_pos[1]))]_vars

C8_Witness ==
  /\ pc = "run" /\ nSend = 2
  /\ received.players # << >>
  /\ Matches(received.players, name) = {}
  /\ found_pos # << >>
  /\ my_player.position = found_pos[1]

====
